---- MODULE Spec2Model ----
(***************************************************************************)
(* World Clock Dashboard (src/app.py): the timezone formatter              *)
(* build_times_dict, the render pass main() with its "Add custom timezone" *)
(* and Telegram start branches, the bot's /check handler, and the alarm    *)
(* checker the specification describes.                                    *)
(*                                                                         *)
(* Text is a sequence of chunks: a chunk is either a run of whitespace     *)
(* (" ") or a run of non-blank characters ("Europe/Berlin", "0", ":").     *)
(* A mapping (a Python dict, which keeps insertion order) is a sequence of *)
(* [key, val] records with pairwise distinct keys.                         *)
(*                                                                         *)
(* The module-level mapping DEFAULT_CITIES and the started threads live as *)
(* long as the process: a render pass is one call of main() on them.       *)
(***************************************************************************)
EXTENDS Integers, Sequences, FiniteSets, TLC

\* ------------------------------------------------------------------ bounds
MaxLen == 3
MaxCustom == 1
MaxSel == 2
MaxBots == 2
MaxChecked == 1
MaxAlarms == 2

\* -------------------------------------------------------------------- text
Str(c) == <<c>>
EMPTY == <<>>
WS == " "

IsSpace(c) == c = WS

RECURSIVE lstrip(_)
lstrip(s) == IF s # <<>> /\ IsSpace(Head(s)) THEN lstrip(Tail(s)) ELSE s

RECURSIVE rstrip(_)
rstrip(s) ==
    IF s # <<>> /\ IsSpace(s[Len(s)]) THEN rstrip(SubSeq(s, 1, Len(s) - 1)) ELSE s

\* str.strip()
strip(s) == rstrip(lstrip(s))

\* ------------------------------------------------------------ ordered dict
Keys(d) == [i \in 1..Len(d) |-> d[i].key]
KeySet(d) == {d[i].key : i \in 1..Len(d)}
HasKey(d, k) == \E i \in 1..Len(d) : d[i].key = k
DictGet(d, k) == d[CHOOSE i \in 1..Len(d) : d[i].key = k].val

\* d[k] = v: a present key keeps its position and takes the new value, a new
\* key goes to the end.
DictSet(d, k, v) ==
    IF HasKey(d, k)
    THEN [i \in 1..Len(d) |-> IF d[i].key = k THEN [key |-> k, val |-> v] ELSE d[i]]
    ELSE Append(d, [key |-> k, val |-> v])

\* ------------------------------------------------------- timezone database
\* The zones this model's database resolves, with their UTC offset in
\* seconds during the modelled instants (January 2024).
ZoneOffsets ==
    << [key |-> Str("Asia/Jakarta"), val |-> 25200],
       [key |-> Str("Asia/Tokyo"), val |-> 32400],
       [key |-> Str("America/New_York"), val |-> -18000],
       [key |-> Str("Australia/Sydney"), val |-> 39600],
       [key |-> Str("Europe/London"), val |-> 0],
       [key |-> Str("UTC"), val |-> 0],
       [key |-> Str("Europe/Berlin"), val |-> 3600] >>

Resolvable(tz_name) == HasKey(ZoneOffsets, tz_name)

\* A call's outcome: a value, or an exception raised.
Return(v) == [raised |-> FALSE, value |-> v, exc |-> <<>>]
Raise(e) == [raised |-> TRUE, value |-> <<>>, exc |-> e]

\* str(UnknownTimeZoneError(name)): the quoted name.
UnknownTimeZoneError(tz_name) == <<"'">> \o tz_name \o <<"'">>

\* pytz.timezone(tz_name)
timezone(tz_name) ==
    IF Resolvable(tz_name)
    THEN Return(DictGet(ZoneOffsets, tz_name))
    ELSE Raise(UnknownTimeZoneError(tz_name))

SecondsPerDay == 86400

\* get_time_for_tz(tz_name) at the instant `now` (seconds since
\* 2024-01-01T00:00:00 UTC): an aware datetime, or the lookup's exception.
get_time_for_tz(tz_name, now) ==
    LET tz == timezone(tz_name) IN
    IF tz.raised THEN tz
    ELSE Return([day |-> (now + tz.value) \div SecondsPerDay,
                 sec |-> (now + tz.value) % SecondsPerDay,
                 utcoffset |-> tz.value])

\* -------------------------------------------------------------- formatting
Digits == <<"0", "1", "2", "3", "4", "5", "6", "7", "8", "9">>
TwoDigits(n) == <<Digits[(n \div 10) + 1], Digits[(n % 10) + 1]>>

Hour(dt) == dt.sec \div 3600
Minute(dt) == (dt.sec % 3600) \div 60
Second(dt) == dt.sec % 60

\* strftime("%H:%M:%S")
format_time(dt) ==
    TwoDigits(Hour(dt)) \o <<":">> \o TwoDigits(Minute(dt)) \o <<":">> \o TwoDigits(Second(dt))

\* The calendar around the modelled instants: day 0 is Monday 1 January
\* 2024, negative days fall in December 2023.
WeekdayNames ==
    <<"Monday", "Tuesday", "Wednesday", "Thursday", "Friday", "Saturday", "Sunday">>
Weekday(dt) == WeekdayNames[(dt.day % 7) + 1]
DayOfMonth(dt) == IF dt.day < 0 THEN 32 + dt.day ELSE dt.day + 1
MonthName(dt) == IF dt.day < 0 THEN "December" ELSE "January"
MonthNumber(dt) == IF dt.day < 0 THEN 12 ELSE 1
YearText(dt) == IF dt.day < 0 THEN <<"2", "0", "2", "3">> ELSE <<"2", "0", "2", "4">>

\* strftime("%A, %d %B %Y")
format_date(dt) ==
    <<Weekday(dt), ",", WS>> \o TwoDigits(DayOfMonth(dt)) \o <<WS, MonthName(dt), WS>>
        \o YearText(dt)

\* datetime.isoformat() of an aware datetime
isoformat(dt) ==
    LET off == IF dt.utcoffset < 0 THEN -dt.utcoffset ELSE dt.utcoffset IN
    YearText(dt) \o <<"-">> \o TwoDigits(MonthNumber(dt)) \o <<"-">>
        \o TwoDigits(DayOfMonth(dt)) \o <<"T">> \o format_time(dt)
        \o <<IF dt.utcoffset < 0 THEN "-" ELSE "+">>
        \o TwoDigits(off \div 3600) \o <<":">> \o TwoDigits((off % 3600) \div 60)

InvalidTZ == <<"Invalid", WS, "TZ">>

\* The loop body without its try/except: the lookup's exception propagates.
snapshot_uncaught(tz, now) ==
    LET dt == get_time_for_tz(tz, now) IN
    IF dt.raised THEN dt
    ELSE Return([time |-> format_time(dt.value), date |-> format_date(dt.value),
                 iso |-> isoformat(dt.value)])

\* One pass of the loop body of build_times_dict: the snapshot of one entry,
\* or the sentinel snapshot when the lookup raises.
snapshot(tz, now) ==
    LET dt == get_time_for_tz(tz, now) IN
    IF dt.raised
    THEN Return([time |-> InvalidTZ, date |-> dt.exc, iso |-> EMPTY])
    ELSE Return([time |-> format_time(dt.value), date |-> format_date(dt.value),
                 iso |-> isoformat(dt.value)])

\* The loop with an except branch that skips the entry instead of storing
\* the sentinel.
RECURSIVE build_loop_skip(_, _, _)
build_loop_skip(items, now, out) ==
    IF items = <<>> THEN Return(out)
    ELSE LET dt == get_time_for_tz(Head(items).val, now) IN
         IF dt.raised THEN build_loop_skip(Tail(items), now, out)
         ELSE build_loop_skip(Tail(items), now,
                              DictSet(out, Head(items).key, snapshot_uncaught(Head(items).val, now).value))

RECURSIVE build_loop(_, _, _)
build_loop(items, now, out) ==
    IF items = <<>> THEN Return(out)
    ELSE LET s == snapshot(Head(items).val, now) IN
         IF s.raised THEN s
         ELSE build_loop(Tail(items), now, DictSet(out, Head(items).key, s.value))

build_times_dict(timezones, now) == build_loop(timezones, now, <<>>)


\* ------------------------------------------------------------------- state
VARIABLES
    DEFAULT_CITIES,      \* the module-level label -> identifier mapping
    token_env,           \* os.getenv("TELEGRAM_TOKEN", "")
    TELEGRAM_AVAILABLE,  \* whether the telegram import succeeded
    threads,             \* one record per polling thread started
    pass,                \* what the last render pass read and showed
    reply,               \* the last /check reply sent
    now,                 \* the system clock
    timezones,           \* the formatter's argument
    out,                 \* the formatter's result
    alarms,              \* the stored alarm list
    triggered            \* the alarm checker's last result

vars ==
    <<DEFAULT_CITIES, token_env, TELEGRAM_AVAILABLE, threads, pass, reply, now,
      timezones, out, alarms, triggered>>

BuiltinCities ==
    << [key |-> Str("WIB (Jakarta)"), val |-> Str("Asia/Jakarta")],
       [key |-> Str("Tokyo"), val |-> Str("Asia/Tokyo")],
       [key |-> Str("New York"), val |-> Str("America/New_York")],
       [key |-> Str("Sydney"), val |-> Str("Australia/Sydney")],
       [key |-> Str("London"), val |-> Str("Europe/London")],
       [key |-> Str("UTC"), val |-> Str("UTC")] >>

APP_TITLE == <<"World", WS, "Clock", WS, "Dashboard">>

\* 00:00:00, 08:59:59, 09:05:00 and 09:05:01 UTC on 1 January 2024
Instants == {0, 32399, 32700, 32701}
\* 12:00:00 UTC on 1 January 2024
Noon == 12 * 3600

NoPass == [status |-> "none"]
NoReply == [bot |-> 0]
NotCalled == [at |-> -1, call |-> Return(<<>>)]
NotChecked == [at |-> -1, n |-> 0, fired |-> <<>>, before |-> <<>>]

\* Sequences over S without repetition, up to length n.
Fresh(S, q) == {y \in S : \A i \in 1..Len(q) : q[i] # y}

RECURSIVE Injective(_, _)
Injective(S, n) ==
    IF n = 0 THEN {<<>>}
    ELSE LET shorter == Injective(S, n - 1) IN
         shorter \cup UNION {{Append(q, x) : x \in Fresh(S, q)} : q \in shorter}

\* ------------------------------------------------- telegram bot start-up
\* Bot._validate_token of python-telegram-bot 13: a token holding whitespace,
\* or not of the form <digits>:<rest>, is refused when the Updater is built.
WellFormedTokens == {"123456:ABC"}
InvalidToken == <<"Invalid", WS, "token">>

Updater(token) ==
    IF Len(token) = 1 /\ token[1] \in WellFormedTokens
    THEN Return(token)
    ELSE Raise(InvalidToken)

Message(level, text) == [level |-> level, text |-> text]
LibraryMissing ==
    Message("warning", "python-telegram-bot not available. Telegram features disabled.")
InvalidTimezone ==
    Message("error", "Invalid timezone. Use IANA timezone names (e.g. Europe/Berlin)")
Added == Message("success", "Added")
ProvideToken == Message("error", "Provide TELEGRAM_TOKEN to start the bot.")
Starting == Message("info", "Starting Telegram bot (polling)...")

\* A render pass in progress: the mapping and thread list as the pass has
\* left them so far, the messages shown, the calls of start_telegram_bot
\* made, and whether an exception has ended the pass.
Running(c) == c.status = "running"
Show(c, m) == [c EXCEPT !.messages = @ \cup {m}]

\* start_telegram_bot(token, tracked_timezones)
start_telegram_bot(c, available, token, tracked_timezones) ==
    LET called == [c EXCEPT !.calls = @ + 1] IN
    IF ~available THEN Show(called, LibraryMissing)
    ELSE LET updater == Updater(token) IN
         IF updater.raised
         THEN [called EXCEPT !.status = "raised", !.exc = updater.exc]
         ELSE [called EXCEPT !.threads =
                   Append(@, [token |-> token, tracked_timezones |-> tracked_timezones])]

\* The branch without the lookup that validates the identifier.
add_custom_timezone_unchecked(c, add_btn, custom_label, custom_tz) ==
    IF add_btn /\ strip(custom_tz) # EMPTY
    THEN LET key == IF strip(custom_label) # EMPTY THEN strip(custom_label)
                    ELSE strip(custom_tz) IN
         Show([c EXCEPT !.cities = DictSet(@, key, strip(custom_tz))], Added)
    ELSE c

\* main(), lines 151-159: the "Add custom timezone" branch.
add_custom_timezone(c, add_btn, custom_label, custom_tz) ==
    IF add_btn /\ strip(custom_tz) # EMPTY
    THEN IF timezone(strip(custom_tz)).raised
         THEN Show(c, InvalidTimezone)
         ELSE LET key == IF strip(custom_label) # EMPTY THEN strip(custom_label)
                         ELSE strip(custom_tz) IN
              Show([c EXCEPT !.cities = DictSet(@, key, strip(custom_tz))], Added)
    ELSE c

\* main(), line 162
timezones_to_display(cities, selection) ==
    [i \in 1..Len(selection) |-> [key |-> selection[i], val |-> DictGet(cities, selection[i])]]

\* The explicit start without the test of the disable box.
ExplicitStart_ignores_toggle(start_telegram, no_telegram) == start_telegram

\* main(), line 165: the explicit start is requested and not disabled.
ExplicitStart(start_telegram, no_telegram) == start_telegram /\ ~no_telegram

\* The automatic start without the test that the token field is blank.
AutoStart_any_field(env, no_telegram, token) == env # EMPTY /\ ~no_telegram

\* main(), line 173: the automatic start with the environment's token.
AutoStart(env, no_telegram, token) == env # EMPTY /\ ~no_telegram /\ strip(token) = EMPTY

\* main(), lines 164-170
telegram_start(c, available, in, tracked) ==
    IF ExplicitStart(in.start_telegram, in.no_telegram)
    THEN IF strip(in.token) = EMPTY
         THEN Show(c, ProvideToken)
         ELSE start_telegram_bot(Show(c, Starting), available, strip(in.token), tracked)
    ELSE c

\* main(), lines 172-176
telegram_autostart(c, available, env, in, tracked) ==
    IF Running(c) /\ AutoStart(env, in.no_telegram, in.token)
    THEN start_telegram_bot(c, available, env, tracked)
    ELSE c

\* main(), lines 178-240: the snapshots are built and the clocks drawn.
draw(c, tracked, t) ==
    IF ~Running(c) THEN c
    ELSE LET times == build_times_dict(tracked, t) IN
         IF times.raised THEN [c EXCEPT !.status = "raised", !.exc = times.exc]
         ELSE [c EXCEPT !.status = "done",
                        !.times = times.value,
                        !.main_label = IF Len(times.value) > 0 THEN times.value[1].key
                                       ELSE Str("UTC"),
                        !.main_info =
                            IF Len(times.value) > 0 THEN times.value[1].val
                            ELSE DictGet(build_times_dict(<<[key |-> Str("UTC"), val |-> Str("UTC")]>>, t).value,
                                         Str("UTC"))]

NoInfo == [time |-> EMPTY, date |-> EMPTY, iso |-> EMPTY]

\* A pass as main() begins it.
begin(cities, started) ==
    [cities |-> cities, threads |-> started, messages |-> {}, calls |-> 0,
     status |-> "running", exc |-> EMPTY, times |-> <<>>,
     main_label |-> EMPTY, main_info |-> NoInfo]

\* The widgets' values in one pass. The multiselect offers the labels of
\* the mapping as it is when the pass begins and returns them in the order
\* they were picked.
SelectionPool == {Str("Tokyo"), Str("Berlin")}
Selections(cities) == Injective(SelectionPool \cap KeySet(cities), MaxSel)

\* main(): one whole render pass over the inputs `in` the widgets return.
Render(in) ==
    /\ in.selection \in Selections(DEFAULT_CITIES)
    /\ \E c1 \in {add_custom_timezone(begin(DEFAULT_CITIES, threads), in.add_btn,
                                      in.custom_label, in.custom_tz)} :
       \E tracked \in {timezones_to_display(c1.cities, in.selection)} :
       \E c2 \in {telegram_start(c1, TELEGRAM_AVAILABLE, in, tracked)} :
       \E c3 \in {telegram_autostart(c2, TELEGRAM_AVAILABLE, token_env, in, tracked)} :
       \E c \in {draw(c3, tracked, now)} :
          /\ DEFAULT_CITIES' = c.cities
          /\ threads' = c.threads
          /\ pass' = [status |-> c.status, exc |-> c.exc, messages |-> c.messages,
                      calls |-> c.calls, times |-> c.times, main_label |-> c.main_label,
                      main_info |-> c.main_info, selection |-> in.selection,
                      add_btn |-> in.add_btn, custom_tz |-> in.custom_tz,
                      token |-> in.token, start_telegram |-> in.start_telegram,
                      no_telegram |-> in.no_telegram]
    /\ UNCHANGED <<token_env, TELEGRAM_AVAILABLE, reply, now, timezones, out, alarms, triggered>>

ReplyText(times) ==
    [title |-> <<"World", WS, "Clock", WS, "-", WS>> \o APP_TITLE,
     lines |-> [i \in 1..Len(times) |->
                  [label |-> times[i].key, time |-> times[i].val.time, date |-> times[i].val.date]]]

\* check_command reading the dashboard's current selection and mapping
\* instead of the mapping it was started with.
check_command_live(tracked_timezones, t) ==
    ReplyText(build_times_dict(timezones_to_display(DEFAULT_CITIES, pass.selection), t).value)

\* check_command: the text of the reply to a /check.
check_command(tracked_timezones, t) == ReplyText(build_times_dict(tracked_timezones, t).value)

\* A /check handled by the bot of polling thread i.
Check(i) ==
    /\ i \in 1..Len(threads)
    /\ reply' = [bot |-> i, during |-> pass.selection,
                 text |-> check_command(threads[i].tracked_timezones, now)]
    /\ UNCHANGED <<DEFAULT_CITIES, token_env, TELEGRAM_AVAILABLE, threads, pass, now,
                   timezones, out, alarms, triggered>>

\* ------------------------------------------------------------ dashboard
EnvTokens == {EMPTY, Str("123456:ABC")}

InitDashboard ==
    /\ DEFAULT_CITIES = BuiltinCities
    /\ token_env \in EnvTokens
    /\ TELEGRAM_AVAILABLE \in BOOLEAN
    /\ threads = <<>>
    /\ pass = NoPass
    /\ reply = NoReply
    /\ now = Noon
    /\ timezones = <<>>
    /\ out = NotCalled
    /\ alarms = <<>>
    /\ triggered = NotChecked

\* What the user may type into the two custom-timezone fields.
CustomLabels == {EMPTY, Str("Tokyo"), <<WS, "Berlin">>}
CustomZones == {EMPTY, <<WS>>, <<"Europe/Berlin", WS>>, Str("UTC"), Str("Not/AZone")}

\* The Telegram widgets as they are when the user leaves them alone: the
\* token field holds the environment's value (line 147), the button is not
\* pressed and the disable box is ticked iff the token is empty (line 149).
Untouched(env) == [token |-> env, start_telegram |-> FALSE, no_telegram |-> (env = EMPTY)]

Inputs(selection, add_btn, custom_label, custom_tz, telegram) ==
    [selection |-> selection, add_btn |-> add_btn, custom_label |-> custom_label,
     custom_tz |-> custom_tz, token |-> telegram.token,
     start_telegram |-> telegram.start_telegram, no_telegram |-> telegram.no_telegram]

\* A pass in which the user works the custom-timezone form.
AddForms ==
    {[add_btn |-> FALSE, custom_label |-> EMPTY, custom_tz |-> EMPTY]} \cup [add_btn : {TRUE}, custom_label : CustomLabels, custom_tz : CustomZones]

RenderAdd ==
    \E selection \in Selections(DEFAULT_CITIES), form \in AddForms :
        /\ Render(Inputs(selection, form.add_btn, form.custom_label, form.custom_tz,
                         Untouched(token_env)))
        /\ Len(DEFAULT_CITIES') <= Len(BuiltinCities) + MaxCustom

NextAdd == RenderAdd

SpecAdd == InitDashboard /\ [][NextAdd]_vars

NoAdd == [add_btn |-> FALSE, custom_label |-> EMPTY, custom_tz |-> EMPTY]

\* What the user may leave in the token field.
TokenFields ==
    {EMPTY, <<WS>>, Str("123456:ABC"), <<WS, "123456:ABC", WS>>, Str("not-a-token")}
TelegramInputs ==
    [token : TokenFields, start_telegram : BOOLEAN, no_telegram : BOOLEAN]

\* A pass in which the user works the Telegram widgets.
RenderTelegram ==
    \E selection \in Selections(DEFAULT_CITIES), telegram \in TelegramInputs :
        /\ Render(Inputs(selection, NoAdd.add_btn, NoAdd.custom_label, NoAdd.custom_tz,
                         telegram))
        /\ Len(threads') <= MaxBots

NextBot == RenderTelegram

SpecBot == InitDashboard /\ [][NextBot]_vars

\* The passes of a user who starts the bot with a typed token, changes the
\* selection and adds or re-points a label.
TypedStart == [token |-> Str("123456:ABC"), start_telegram |-> TRUE, no_telegram |-> FALSE]
FewAddForms ==
    { NoAdd,
      [add_btn |-> TRUE, custom_label |-> Str("Berlin"), custom_tz |-> Str("Europe/Berlin")],
      [add_btn |-> TRUE, custom_label |-> Str("Tokyo"), custom_tz |-> Str("UTC")] }

RenderSelect ==
    \E selection \in Selections(DEFAULT_CITIES), form \in FewAddForms,
       telegram \in {Untouched(token_env), TypedStart} :
        /\ Render(Inputs(selection, form.add_btn, form.custom_label, form.custom_tz, telegram))
        /\ Len(threads') <= MaxChecked

\* A remote chat sends /check to one of the polling bots.
CheckCommand == \E i \in 1..Len(threads) : Check(i)

NextCheck == RenderSelect \/ CheckCommand

SpecCheck == InitDashboard /\ [][NextCheck]_vars

\* ----------------------------------------------------- formatter, stand-alone
FormatLabels == {Str("Tokyo"), Str("Home"), Str("UTC"), Str("New York")}
FormatZones == {Str("UTC"), Str("America/New_York"), Str("Not/AZone"), EMPTY}

RECURSIVE Mappings(_, _)
\* Every mapping with the keys `keys`, in that order, and values among vals.
Mappings(keys, vals) ==
    IF keys = <<>> THEN {<<>>}
    ELSE {<<[key |-> Head(keys), val |-> v]>> \o m : v \in vals, m \in Mappings(Tail(keys), vals)}

FormatInputs == UNION {Mappings(ks, FormatZones) : ks \in Injective(FormatLabels, MaxLen)}

Quiet ==
    /\ DEFAULT_CITIES = BuiltinCities
    /\ token_env = EMPTY
    /\ TELEGRAM_AVAILABLE = FALSE
    /\ threads = <<>>
    /\ pass = NoPass
    /\ reply = NoReply

InitFormat ==
    /\ Quiet
    /\ now \in Instants
    /\ timezones \in FormatInputs
    /\ out = NotCalled
    /\ alarms = <<>>
    /\ triggered = NotChecked

\* A caller runs build_times_dict(timezones).
Format ==
    /\ out' = [at |-> now, call |-> build_times_dict(timezones, now)]
    /\ UNCHANGED <<DEFAULT_CITIES, token_env, TELEGRAM_AVAILABLE, threads, pass, reply,
                   now, timezones, alarms, triggered>>

\* The clock advances.
Tick ==
    /\ \E t \in Instants : t > now /\ now' = t
    /\ UNCHANGED <<DEFAULT_CITIES, token_env, TELEGRAM_AVAILABLE, threads, pass, reply,
                   timezones, out, alarms, triggered>>

NextFormat == Format \/ Tick

SpecFormat == InitFormat /\ [][NextFormat]_vars


FormatCalled == out.at \in Instants

IsTimeText(t) ==
    /\ Len(t) = 8
    /\ t[3] = ":" /\ t[6] = ":"
    /\ \A i \in {1, 2, 4, 5, 7, 8} : \E d \in 1..10 : t[i] = Digits[d]

\* C1: build_times_dict never raises; an entry whose identifier does not
\* resolve gets time "Invalid TZ", the error text as date and an empty iso,
\* and every other entry of the mapping, before or after it, gets the
\* snapshot it gets when formatted alone.
C1_InvalidEntryDegradesAlone ==
    FormatCalled =>
        /\ ~out.call.raised
        /\ \A i \in 1..Len(timezones) :
              LET e == timezones[i] IN
              /\ HasKey(out.call.value, e.key)
              /\ IF Resolvable(e.val)
                 THEN /\ IsTimeText(DictGet(out.call.value, e.key).time)
                      /\ DictGet(out.call.value, e.key).date # EMPTY
                      /\ DictGet(out.call.value, e.key)
                            = DictGet(build_times_dict(<<e>>, out.at).value, e.key)
                 ELSE DictGet(out.call.value, e.key)
                        = [time |-> InvalidTZ, date |-> UnknownTimeZoneError(e.val),
                           iso |-> EMPTY]

\* An invalid entry between two valid ones has been formatted.
C1_Witness ==
    /\ FormatCalled
    /\ Len(timezones) = 3
    /\ Resolvable(timezones[1].val)
    /\ timezones[2].val = Str("Not/AZone")
    /\ Resolvable(timezones[3].val)
    /\ ~out.call.raised
    /\ out.call.value[2].val.time = InvalidTZ
    /\ IsTimeText(out.call.value[3].val.time)

\* C2: the output of build_times_dict has exactly the input's labels, in
\* the input's order, valid or not.
C2_LabelsAndOrderKept ==
    FormatCalled => ~out.call.raised /\ Keys(out.call.value) = Keys(timezones)

\* A mapping of three labels, the first of them invalid, has been formatted.
C2_Witness ==
    /\ FormatCalled
    /\ Len(timezones) = 3
    /\ ~Resolvable(timezones[1].val)
    /\ Resolvable(timezones[2].val)
    /\ Keys(timezones) = <<Str("UTC"), Str("Tokyo"), Str("Home")>>
    /\ Len(out.call.value) = 3


\* ------------------------------------------------------------ alarm checker
\* strftime("%H:%M")
format_hhmm(dt) == TwoDigits(Hour(dt)) \o <<":">> \o TwoDigits(Minute(dt))

\* The comparison with the seconds kept in the current time's text.
alarm_matches_to_the_second(alarm, t) ==
    format_time(get_time_for_tz(alarm.identifier, t).value) = alarm.targetTime

\* The current HH:MM in the alarm's zone equals its target string.
alarm_matches(alarm, t) ==
    format_hhmm(get_time_for_tz(alarm.identifier, t).value) = alarm.targetTime

\* checkAlarms(alarms): the triggered alarms, in list order.
checkAlarms(list, t) == SelectSeq(list, LAMBDA alarm : alarm_matches(alarm, t))

AlarmLabels == {Str("Wake")}
AlarmZones == {Str("UTC"), Str("Asia/Tokyo")}
AlarmTimes ==
    { <<"0", "9", ":", "0", "5">>, <<"1", "8", ":", "0", "5">>,
      <<"0", "8", ":", "5", "9">>, <<"9", ":", "0", "5">>, EMPTY }

InitAlarms ==
    /\ Quiet
    /\ now \in Instants
    /\ timezones = <<>>
    /\ out = NotCalled
    /\ alarms = <<>>
    /\ triggered = NotChecked

\* The "Add Alarm" action: a non-empty time string is appended.
AddAlarm ==
    /\ Len(alarms) < MaxAlarms
    /\ \E label \in AlarmLabels, identifier \in AlarmZones, targetTime \in AlarmTimes :
          alarms' = IF targetTime # EMPTY
                    THEN Append(alarms, [label |-> label, identifier |-> identifier,
                                         targetTime |-> targetTime])
                    ELSE alarms
    /\ UNCHANGED <<DEFAULT_CITIES, token_env, TELEGRAM_AVAILABLE, threads, pass, reply,
                   now, timezones, out, triggered>>

\* A refresh runs the checker over the stored list.
CheckAlarms ==
    /\ triggered' = [at |-> now, n |-> Len(alarms), fired |-> checkAlarms(alarms, now),
                     before |-> triggered.fired]
    /\ UNCHANGED <<DEFAULT_CITIES, token_env, TELEGRAM_AVAILABLE, threads, pass, reply,
                   now, timezones, out, alarms>>

NextAlarms == AddAlarm \/ CheckAlarms \/ Tick

SpecAlarms == InitAlarms /\ [][NextAlarms]_vars


\* ------------------------------------------------------- dashboard claims
Rendered == pass.status # "none"
Warned(p) == \E m \in p.messages : m.level = "warning"
Labels(text) == [i \in 1..Len(text.lines) |-> text.lines[i].label]
IsPrefix(a, b) == Len(a) <= Len(b) /\ SubSeq(b, 1, Len(a)) = a

\* The identifier submitted by the pass p, as the code reads it.
Submitted(p) == strip(p.custom_tz)

\* C3, as claimed: an add submitted with an identifier that does not resolve
\* leaves the mapping as it was and shows an error.
C3_InvalidAddShowsError ==
    [][(pass'.add_btn /\ ~Resolvable(Submitted(pass')))
          => (DEFAULT_CITIES' = DEFAULT_CITIES /\ InvalidTimezone \in pass'.messages)]_vars

\* C3, amended: an add submitted with an identifier that does not resolve
\* leaves the mapping as it was, and shows an error unless the identifier is
\* blank; no identifier that does not resolve is ever stored.
C3_InvalidAddRejected ==
    /\ [](\A i \in 1..Len(DEFAULT_CITIES) : Resolvable(DEFAULT_CITIES[i].val))
    /\ [][(pass'.add_btn /\ ~Resolvable(Submitted(pass')))
             => /\ DEFAULT_CITIES' = DEFAULT_CITIES
                /\ Submitted(pass') # EMPTY => InvalidTimezone \in pass'.messages
                /\ Submitted(pass') = EMPTY
                      => pass'.messages \cap {InvalidTimezone, Added} = {}]_vars

\* The add of "Not/AZone" has been refused with the built-in mapping intact.
C3_Witness ==
    /\ Rendered
    /\ pass.add_btn
    /\ pass.custom_tz = Str("Not/AZone")
    /\ InvalidTimezone \in pass.messages
    /\ DEFAULT_CITIES = BuiltinCities

\* C7: after any add, every label the mapping had still maps to the
\* identifier it had, and none is removed.
C7_MappingOnlyAppended ==
    [][\A k \in KeySet(DEFAULT_CITIES) :
          HasKey(DEFAULT_CITIES', k) /\ DictGet(DEFAULT_CITIES', k) = DictGet(DEFAULT_CITIES, k)]_vars

\* C5: with a token in the environment, the token field left as it is, the
\* button not pressed and the disable box off, the pass starts the bot.
C5_AutoStartOnRender ==
    (Rendered /\ token_env # EMPTY /\ pass.token = token_env
        /\ ~pass.start_telegram /\ ~pass.no_telegram)
    => (pass.calls = 1 /\ (TELEGRAM_AVAILABLE => threads # <<>>))

\* C6: a pass whose bot start fails, for a missing library or an invalid
\* credential, shows a warning and still builds the snapshots of its
\* selection and draws the clocks.
C6_StartFailureOnlyWarns ==
    (Rendered /\ pass.calls >= 1
        /\ (~TELEGRAM_AVAILABLE \/ (pass.start_telegram /\ Updater(strip(pass.token)).raised)))
    => (Warned(pass) /\ pass.status = "done" /\ Keys(pass.times) = pass.selection)

\* C8: a pass with the disable box ticked starts no polling thread, whatever
\* the token field, the environment and the button are; nor does a pass with
\* an empty environment value and an empty token field.
C8_DisabledOrNoCredentialStartsNothing ==
    [][(pass'.no_telegram \/ (token_env = EMPTY /\ pass'.token = EMPTY))
          => threads' = threads]_vars

\* The button was pressed with a valid token and the box ticked, and no
\* thread exists.
C8_Witness ==
    /\ Rendered
    /\ pass.no_telegram /\ pass.start_telegram
    /\ pass.token = Str("123456:ABC")
    /\ token_env # EMPTY
    /\ TELEGRAM_AVAILABLE
    /\ pass.calls = 0
    /\ threads = <<>>

\* C9: a pass calls start_telegram_bot at most once; the thread list grows
\* by one in a pass whose call succeeds and is unchanged in every other
\* pass, and no thread ever leaves it.
C9_OneThreadPerStart ==
    [][/\ pass'.calls <= 1
       /\ IsPrefix(threads, threads')
       /\ Len(threads') = Len(threads) +
             (IF pass'.calls = 1 /\ TELEGRAM_AVAILABLE /\ pass'.status # "raised"
              THEN 1 ELSE 0)]_vars

\* A second start has left two polling threads.
C9_Witness ==
    /\ Rendered
    /\ pass.calls = 1
    /\ Len(threads) = 2

\* C4: a thread's captured mapping has the labels selected in the pass that
\* started it, no later pass changes it, and every /check reply of that
\* thread's bot lists exactly those labels.
C4_CheckRepliesWithCapturedSet ==
    [][/\ IsPrefix(threads, threads')
       /\ \A i \in (Len(threads) + 1)..Len(threads') :
             /\ Keys(threads'[i].tracked_timezones) = pass'.selection
             /\ \A j \in 1..Len(pass'.selection) :
                   threads'[i].tracked_timezones[j].val
                       = DictGet(DEFAULT_CITIES', pass'.selection[j])
       /\ reply' # reply
             => Labels(reply'.text) = Keys(threads[reply'.bot].tracked_timezones)]_vars

\* A /check was answered with the labels captured at the start, after the
\* selection had changed and a custom timezone had been added.
C4_Witness ==
    /\ reply.bot = 1
    /\ Labels(reply.text) = <<Str("Tokyo")>>
    /\ reply.during = <<Str("Berlin")>>
    /\ HasKey(DEFAULT_CITIES, Str("Berlin"))

\* ----------------------------------------------------------- alarm claims
Checked == triggered.at \in Instants

\* The alarm's target is the text of the hour and minute that the second
\* t falls in, in the alarm's zone.
Due(alarm, t) ==
    LET local == (t + DictGet(ZoneOffsets, alarm.identifier)) % SecondsPerDay IN
    \E h \in 0..23, m \in 0..59 :
        /\ alarm.targetTime = TwoDigits(h) \o <<":">> \o TwoDigits(m)
        /\ local \in (h * 3600 + m * 60)..(h * 3600 + m * 60 + 59)

\* C10: checkAlarms returns exactly the stored alarms whose target equals
\* the current HH:MM in their zone, in list order, whatever earlier checks
\* returned.
C10_TriggeredIffMinuteMatches ==
    Checked =>
        triggered.fired
            = SelectSeq(SubSeq(alarms, 1, triggered.n), LAMBDA a : Due(a, triggered.at))

NineOhFive == [label |-> Str("Wake"), identifier |-> Str("UTC"),
               targetTime |-> <<"0", "9", ":", "0", "5">>]

\* The 09:05 UTC alarm fired at 09:05:01 after it had fired at the check
\* before.
C10_Witness ==
    /\ triggered.at = 32701
    /\ triggered.fired = <<NineOhFive>>
    /\ triggered.before = <<NineOhFive>>

====
